---- MODULE Spec2Model ----
(***************************************************************************)
(* Twister: the pipeline consumer -> Dispatch -> worker.Input ->           *)
(* worker.process -> producer -> success/error -> updateOffset -> commit   *)
(* notification -> DelayedCommit -> CommitUpto, with the supervisor.       *)
(*                                                                         *)
(* One topic and one partition are modelled; an envelope is identified by  *)
(* its offset.  The tracking token of a batch (a fresh UUID per processed  *)
(* envelope) is named by the offset of the envelope it was created for.    *)
(* The metrics socket is not started (conf.Misc.ProduceMetrics = false).   *)
(***************************************************************************)
EXTENDS Integers, Sequences, FiniteSets, TLC

\* ------------------------------------------------------------------ bounds
\* Spec (the pipeline without heartbeat ticks): messages the upstream log
\* delivers, and metrics of the largest batch
PipeMsgs == 2
PipeRecs == 2
\* failures the environment injects during a run of Spec or SpecBeat: a
\* consumer group join failure, a consumer error, a producer error, a
\* profile cache error
MaxFaults == 1
\* SpecBeat (the pipeline with heartbeat ticks): messages, metrics, ticks
BeatMsgs == 2
BeatRecs == 1
BeatTicks == 1
\* SpecCommit (DelayedCommit): commit notifications on their way
CommitMsgs == 4
\* SpecDispatch (Dispatch): the host ids are -HostRange .. HostRange, the
\* handler counts 1 .. MaxCPUs
HostRange == 12
MaxCPUs == 4
\* SpecProcess (process on any payload): messages, metrics of the largest
\* batch
ProcMsgs == 2
ProcRecs == 1
\* SpecLive (the pipeline under fair scheduling): messages, metrics
LiveMsgs == 1
LiveRecs == 1
\* SpecWall (heartbeats only): heartbeat ticks
WallTicks == 2
\* SpecSplit (MetricBatch.Split): data blocks of a batch, metrics of one
\* type in a data block
SplitBlocks == 2
SplitMetrics == 1
\* SpecMarshal (the pipeline with metrics that fail to marshal): messages,
\* metrics of the largest batch
MarshalMsgs == 1
MarshalRecs == 2
\* SpecTick (main's loop with more ticks than an Input holds): heartbeat
\* ticks
TickTicks == 3
\* offset of the first delivered message
FirstOffset == 103

\* ----------------------------------------------------------- configuration
\* runtime.NumCPU(): the number of handlers (Spec, SpecBeat, SpecCommit)
NumCPU == 2
\* conf.Twister.HandlerQueueLength, the capacity of a handler's Input
\* channel: in Spec, SpecCommit and SpecDispatch, and in SpecBeat
PipeQueue == 1
BeatQueue == 2
\* 2^31 - 1: the usage counter of delay is a uint32
HalfRange == 2147483647

\* the only consumer topic and partition
Topic == "m"
Partition == 0
HeartbeatTopic == "erebos.heartbeat"

\* ---------------------------------------------------------------- payloads
\* A payload is abstracted to what the code reads of it:
\*   batch     a JSON metric batch of host host_id with n metrics
\*   badbatch  a JSON object with an integer host_id that MetricBatch rejects
\*   garbage   bytes that are no JSON object with an integer host_id
\*   null      a nil Value
\*   time      the binary timestamp n of a heartbeat
Payload(kind, h, n) == [kind |-> kind, host_id |-> h, n |-> n]

\* what the upstream log delivers (a nil Value is rejected by PeekHostID
\* like any other non-JSON value)
UpstreamValues(hosts, recs) ==
    {Payload("batch", h, n) : h \in {x \in hosts : x >= 0}, n \in 0 .. recs}
        \cup {Payload("batch", h, 0) : h \in {x \in hosts : x < 0}}
        \cup {Payload("badbatch", h, 0) : h \in {x \in hosts : x >= 0}}
        \cup {Payload("garbage", 0, 0)}

\* erebos.Transport
Transport(host, value, topic, part, off) ==
    [HostID |-> host, Value |-> value, Topic |-> topic,
     Partition |-> part, Offset |-> off]

\* erebos.NewHeartbeat at tick time ts
NewHeartbeat(ts) ==
    Transport(-1, Payload("time", 0, ts), HeartbeatTopic, -1, -1)

\* erebos.IsHeartbeat
IsHeartbeatNever(t) == FALSE
IsHeartbeat(t) ==
    /\ t.HostID = -1
    /\ t.Topic = HeartbeatTopic
    /\ t.Partition = -1
    /\ t.Offset = -1

\* a peek that never fails
PeekHostIDLenient(value) == [err |-> FALSE, id |-> value.host_id]

\* legacy.PeekHostID: json.Unmarshal into a struct with an int host_id
PeekHostID(value) ==
    IF value.kind \in {"batch", "badbatch"}
    THEN [err |-> FALSE, id |-> value.host_id]
    ELSE [err |-> TRUE, id |-> 0]

\* json.Unmarshal(msg.Value, &batch)
ParseOK(value) == value.kind = "batch"

\* Go's % on int: the remainder of the truncated division, with the sign of
\* the dividend
GoRem(a, b) == IF a >= 0 THEN a % b ELSE -((-a) % b)

\* hostID % runtime.NumCPU(), the key Dispatch looks up in Handlers
HandlerKey(hostID, ncpu) == GoRem(hostID, ncpu)

\* channel send on a buffered channel with room: the value joins the tail
SendFront(q, m) == <<m>> \o q
Send(q, m) == Append(q, m)

\* delay.Use / delay.Done on the uint32 usage.  A usage x is held as the
\* two's complement reading of its 32 bits (x for x < 2^31, x - 2^32 above):
\* the same ring, so 0 - 1 = 2^32 - 1 is held as -1.
Use(u) == IF u = HalfRange THEN (-HalfRange) - 1 ELSE u + 1
Done(u) == IF u = (-HalfRange) - 1 THEN HalfRange ELSE u - 1

\* ------------------------------------------------------------------- state
VARIABLES
    \* what the run is scaled to, fixed by Init: cpus (runtime.NumCPU()),
    \* msgs (messages the upstream log delivers), recs (metrics of the
    \* largest batch), ticks (heartbeat ticks), hosts (host ids of batches),
    \* faults (failures the environment may inject), queue
    \* (conf.Twister.HandlerQueueLength), cache (what the profile cache
    \* answers), marshal (the errors json.Marshal may return for a metric)
    scale,
    faults,         \* failures injected so far
    \* upstream consumer (erebos.Consumer)
    consPc,         \* position of the Consumer goroutine
    consCur,        \* the Transport Dispatch is blocked sending
    delivered,      \* messages read from consumer.Messages()
    consShutdown,   \* consumerShutdown is closed
    consExit,       \* consumerExit is closed
    cgClosed,       \* consumer.Close() was called
    \* DelayedCommit
    dcPc,           \* "idle" (not started), "run", "done"
    notify,         \* the commitNotification channel
    dcOffsets,      \* offsets[topic][partition]
    uncommitted,    \* uncommitted[topic][partition]
    cgCommits,      \* history: the offsets passed to cg.CommitUpto, in order
    \* handlers (twister.Twister)
    input,          \* Input channel content
    inputClosed,    \* Input is closed
    shutdownClosed, \* Shutdown is closed
    wpc,            \* position of the handler goroutine
    trackID,        \* trackID map
    trackACK,       \* trackACK map
    inputEmpty, errorEmpty, successEmpty, producerClosed,  \* locals of run
    delay,          \* t.delay usage
    subG,           \* pending submission goroutines, per token
    commitG,        \* pending commit goroutines, per envelope offset
    hbG,            \* pending lookup.Heartbeat goroutines (timestamps)
    \* downstream producer of each handler (sarama.AsyncProducer)
    inflight,       \* messages accepted on Input() and not yet acked
    prodClosed,     \* Close() was called
    \* profile cache
    beats,          \* eyewall heartbeat map
    hbCalls,        \* history: Heartbeat calls <<handlerNum, ts>>
    \* supervisor (main)
    mainPc, fault, ticks,
    hbSend,         \* pending heartbeat sender goroutines <<handler, ts>>
    waitdelay,      \* waitdelay usage
    panic,          \* "none", or the runtime panic that ended the process
    status,         \* exit status of the process: <<>> while it runs
    split,          \* a call of MetricBatch.Split and its goroutines
    \* history
    produced,       \* per offset: records handed to submission goroutines
    owed,           \* per offset: those of them with no success received yet
    notified,       \* per offset: commit notifications sent
    recv,           \* per handler: <<host id, offset>> of the envelopes read from Input
    payload         \* per offset: the Value of the message delivered with it

consVars == <<consPc, consCur, delivered, consShutdown, consExit, cgClosed>>
dcVars == <<dcPc, notify, dcOffsets, uncommitted, cgCommits>>
chanVars == <<input, inputClosed, shutdownClosed>>
runVars == <<wpc, inputEmpty, errorEmpty, successEmpty, producerClosed>>
trackVars == <<trackID, trackACK>>
goVars == <<delay, subG, commitG, hbG>>
prodVars == <<inflight, prodClosed>>
wallVars == <<beats, hbCalls>>
mainVars == <<mainPc, fault, ticks, hbSend, waitdelay>>
histVars == <<produced, owed, notified, recv, payload>>

vars == <<scale, status, split, faults, consVars, dcVars, chanVars, runVars, trackVars, goVars, prodVars,
          wallVars, mainVars, panic, histVars>>

Workers == 0 .. (scale.cpus - 1)
Offsets == FirstOffset .. (FirstOffset + scale.msgs - 1)
\* keys of the goroutine bags: the offsets, and -1, the offset of a heartbeat
EnvKeys == Offsets \cup {-1}

NoMsg == Transport(0, Payload("none", 0, 0), "", 0, 0)
ZeroBag == [k \in EnvKeys |-> 0]

Scale(cpus, msgs, recs, nticks, hosts, nfaults, queue, cache) ==
    [cpus |-> cpus, msgs |-> msgs, recs |-> recs, ticks |-> nticks,
     hosts |-> hosts, faults |-> nfaults, queue |-> queue, cache |-> cache,
     marshal |-> {"nil"}]

\* the environment may inject one more failure
MayFail == faults < scale.faults

\* the state of a run scaled to sc in which the consumer is at cpc,
\* DelayedCommit at dpc, and the handlers' Inputs hold inp, the first n
\* messages, whose payloads are vals
StartPipe(sc, cpc, dpc, inp, n, vals) ==
    /\ scale = sc /\ faults = 0
    /\ consPc = cpc /\ consCur = NoMsg /\ delivered = n
    /\ consShutdown = FALSE /\ consExit = FALSE /\ cgClosed = FALSE
    /\ dcPc = dpc /\ notify = <<>>
    /\ dcOffsets = 0 /\ uncommitted = <<>> /\ cgCommits = <<>>
    /\ input = inp
    /\ inputClosed = [w \in Workers |-> FALSE]
    /\ shutdownClosed = [w \in Workers |-> FALSE]
    /\ wpc = [w \in Workers |-> "run"]
    /\ trackID = [w \in Workers |-> [x \in {} |-> 0]]
    /\ trackACK = [w \in Workers |-> [x \in {} |-> <<>>]]
    /\ inputEmpty = [w \in Workers |-> FALSE]
    /\ errorEmpty = [w \in Workers |-> FALSE]
    /\ successEmpty = [w \in Workers |-> FALSE]
    /\ producerClosed = [w \in Workers |-> FALSE]
    /\ delay = [w \in Workers |-> 0]
    /\ subG = [w \in Workers |-> ZeroBag]
    /\ commitG = [w \in Workers |-> ZeroBag]
    /\ hbG = [w \in Workers |-> <<>>]
    /\ inflight = [w \in Workers |-> ZeroBag]
    /\ prodClosed = [w \in Workers |-> FALSE]
    /\ beats = [k \in Workers \cup {-1} |-> 0]
    /\ hbCalls = {}
    /\ mainPc = "run" /\ fault = FALSE /\ ticks = 0 /\ hbSend = {}
    /\ waitdelay = sc.cpus + 1
    /\ panic = "none" /\ status = <<>>
    /\ produced = ZeroBag /\ owed = ZeroBag /\ notified = ZeroBag
    /\ recv = [w \in Workers |-> <<>>]
    /\ payload = vals

\* no call of Split is looked at
NoSplit == [pc |-> "idle"]

\* the same, with no call of Split looked into
StartWith(sc, cpc, dpc, inp, n, vals) ==
    StartPipe(sc, cpc, dpc, inp, n, vals) /\ split = NoSplit

\* the state after construction, for a run scaled to sc
Start(sc) ==
    StartWith(sc, "join", "idle",
              [w \in 0 .. (sc.cpus - 1) |-> <<>>], 0,
              [o \in FirstOffset .. (FirstOffset + sc.msgs - 1)
                  |-> NoMsg.Value])

\* the process runs: no runtime panic has ended it and main has not returned
Alive == panic = "none" /\ mainPc # "exit"

BagAdd(bag, k, n) == [bag EXCEPT ![k] = @ + n]
BagEmpty(bag) == \A k \in DOMAIN bag : bag[k] = 0
Min(S) == CHOOSE x \in S : \A y \in S : x <= y
RemoveAt(q, i) == SubSeq(q, 1, i - 1) \o SubSeq(q, i + 1, Len(q))
\* an assignment that is left out
MapSkip(m, k, v) == m

\* a Go map as a function: m[k] = v and delete(m, k)
MapPut(m, k, v) == [x \in DOMAIN m \cup {k} |-> IF x = k THEN v ELSE m[x]]
\* a delete that leaves the map as it is
MapKeep(m, k) == m

MapDelete(m, k) == [x \in DOMAIN m \ {k} |-> m[x]]

\* ---------------------------------------------------------- DelayedCommit
\* the doubled "uncommittedloop": find the first stored notification whose
\* offset follows offsets[topic][partition], commit it, remove it, rescan
RECURSIVE SweepUncommitted(_, _, _)
SweepUncommitted(off, unc, log) ==
    LET hits == {i \in 1 .. Len(unc) : off = unc[i] - 1}
    IN  IF hits = {}
        THEN [unc |-> unc, log |-> log]
        ELSE SweepUncommitted(off, RemoveAt(unc, Min(hits)),
                              Append(log, unc[Min(hits)]))

\* the body of "case n := <-notify" for the notification of offset n:
\* the new uncommitted list and CommitUpto log (offsets[..][..] is read and
\* never assigned by DelayedCommit)
NotifyStep(off, unc, log, n) ==
    IF off = 0
    THEN [unc |-> unc, log |-> Append(log, n)]
    ELSE IF off = n - 1
         THEN SweepUncommitted(off, unc, Append(log, n))
         ELSE [unc |-> Append(unc, n), log |-> log]

DelayedCommitNotify ==
    /\ Alive /\ dcPc = "run" /\ notify # <<>>
    /\ LET r == NotifyStep(dcOffsets, uncommitted, cgCommits, Head(notify))
       IN  /\ uncommitted' = r.unc
           /\ cgCommits' = r.log
    /\ notify' = Tail(notify)
    /\ UNCHANGED <<scale, status, split, faults, dcPc, dcOffsets, consVars, chanVars, runVars, trackVars,
                   goVars, prodVars, wallVars, mainVars, panic, histVars>>

\* "case <-shutdown: break notifyloop", then close(done)
DelayedCommitShutdown ==
    /\ Alive /\ dcPc = "run" /\ consShutdown
    /\ dcPc' = "done"
    /\ UNCHANGED <<scale, status, split, faults, notify, dcOffsets, uncommitted, cgCommits, consVars,
                   chanVars, runVars, trackVars, goVars, prodVars, wallVars,
                   mainVars, panic, histVars>>

\* --------------------------------------------------------------- Consumer
\* consumergroup.JoinConsumerGroup succeeds: DelayedCommit is started
ConsumerJoin ==
    /\ Alive /\ consPc = "join"
    /\ consPc' = "run" /\ dcPc' = "run"
    /\ UNCHANGED <<scale, status, split, faults, consCur, delivered, consShutdown, consExit,
                   cgClosed, notify, dcOffsets, uncommitted, cgCommits,
                   chanVars, runVars, trackVars, goVars, prodVars, wallVars,
                   mainVars, panic, histVars>>

\* JoinConsumerGroup fails: "death <- err" blocks until main receives
ConsumerJoinFail ==
    /\ Alive /\ consPc = "join" /\ MayFail
    /\ faults' = faults + 1
    /\ consPc' = "joinDeath"
    /\ UNCHANGED <<scale, status, split, consCur, delivered, consShutdown, consExit,
                   cgClosed, dcVars, chanVars, runVars, trackVars, goVars,
                   prodVars, wallVars, mainVars, panic, histVars>>

\* Dispatch(msg) up to its channel send: the peek failed ("error"), the
\* handler lookup panics ("nilHandler"), or the send to handler key is next
DispatchRoute(value) ==
    LET peek == PeekHostID(value)
    IN  IF peek.err THEN [res |-> "error", key |-> 0]
        ELSE IF HandlerKey(peek.id, scale.cpus) \notin Workers
             THEN [res |-> "nilHandler", key |-> HandlerKey(peek.id, scale.cpus)]
             ELSE [res |-> "send", key |-> HandlerKey(peek.id, scale.cpus)]

\* "case msg := <-consumer.Messages()": the message is handed to Dispatch,
\* whose error is dropped; Dispatch blocks while the handler's Input is full
ConsumerMessage ==
    /\ Alive /\ consPc = "run" /\ delivered < scale.msgs
    /\ \E v \in UpstreamValues(scale.hosts, scale.recs) :
         LET route == DispatchRoute(v)
             msg == Transport(PeekHostID(v).id, v, Topic, Partition,
                              FirstOffset + delivered)
         IN  /\ delivered' = delivered + 1
             /\ payload' = [payload EXCEPT ![FirstOffset + delivered] = v]
             /\ CASE route.res = "error" ->
                       UNCHANGED <<consPc, consCur, input, panic>>
                  [] route.res = "nilHandler" ->
                       /\ panic' = "nilHandler"
                       /\ UNCHANGED <<consPc, consCur, input>>
                  [] route.res = "send" /\ inputClosed[route.key] ->
                       /\ panic' = "sendOnClosedInput"
                       /\ UNCHANGED <<consPc, consCur, input>>
                  [] route.res = "send" /\ ~inputClosed[route.key]
                        /\ Len(input[route.key]) < scale.queue ->
                       /\ input' = [input EXCEPT ![route.key] = Send(@, msg)]
                       /\ UNCHANGED <<consPc, consCur, panic>>
                  [] OTHER ->
                       /\ consPc' = "dispatch" /\ consCur' = msg
                       /\ UNCHANGED <<input, panic>>
    /\ UNCHANGED <<scale, status, split, faults, consShutdown, consExit, cgClosed, dcVars, inputClosed,
                   shutdownClosed, runVars, trackVars, goVars, prodVars,
                   wallVars, mainVars, produced, owed, notified, recv>>

\* the blocked send of Dispatch completes
ConsumerDispatchSend ==
    /\ Alive /\ consPc = "dispatch"
    /\ LET key == HandlerKey(consCur.HostID, scale.cpus)
       IN  IF inputClosed[key]
           THEN /\ panic' = "sendOnClosedInput"
                /\ UNCHANGED <<consPc, consCur, input>>
           ELSE /\ Len(input[key]) < scale.queue
                /\ input' = [input EXCEPT ![key] = Send(@, consCur)]
                /\ consPc' = "run" /\ consCur' = NoMsg
                /\ UNCHANGED panic
    /\ UNCHANGED <<scale, status, split, faults, delivered, consShutdown, consExit, cgClosed,
                   dcVars, inputClosed, shutdownClosed, runVars, trackVars,
                   goVars, prodVars, wallVars, mainVars, histVars>>

\* "case err := <-consumer.Errors()": "death <- err" blocks
ConsumerError ==
    /\ Alive /\ consPc = "run" /\ MayFail
    /\ faults' = faults + 1
    /\ consPc' = "errDeath"
    /\ UNCHANGED <<scale, status, split, consCur, delivered, consShutdown, consExit,
                   cgClosed, dcVars, chanVars, runVars, trackVars, goVars,
                   prodVars, wallVars, mainVars, panic, histVars>>

\* "case <-shutdown: break runloop"
ConsumerShutdown ==
    /\ Alive /\ consPc = "run" /\ consShutdown
    /\ consPc' = "waitDone"
    /\ UNCHANGED <<scale, status, split, faults, consCur, delivered, consShutdown, consExit,
                   cgClosed, dcVars, chanVars, runVars, trackVars, goVars,
                   prodVars, wallVars, mainVars, panic, histVars>>

\* a consumer that closes the client without "<-done"
ConsumerCloseUnawaited ==
    /\ Alive /\ consPc = "waitDone" /\ consShutdown
    /\ cgClosed' = TRUE /\ consExit' = TRUE /\ consPc' = "exited"
    /\ waitdelay' = Done(waitdelay)
    /\ UNCHANGED <<scale, status, split, faults, consCur, delivered,
                   consShutdown, dcVars, chanVars, runVars, trackVars,
                   goVars, prodVars, wallVars, mainPc, fault, ticks, hbSend,
                   panic, histVars>>

\* "<-done", consumer.Close(), "<-shutdown", close(exit), return; main's
\* wrapper calls waitdelay.Done().  done is closed only after shutdown is,
\* so "<-shutdown" does not block here.
ConsumerClose ==
    /\ Alive /\ consPc = "waitDone" /\ dcPc = "done" /\ consShutdown
    /\ cgClosed' = TRUE /\ consExit' = TRUE /\ consPc' = "exited"
    /\ waitdelay' = Done(waitdelay)
    /\ UNCHANGED <<scale, status, split, faults, consCur, delivered, consShutdown, dcVars, chanVars,
                   runVars, trackVars, goVars, prodVars, wallVars, mainPc,
                   fault, ticks, hbSend, panic, histVars>>

\* ---------------------------------------------------------------- handler
\* "t.trackID[trackingID] == 0"
FullyProcessedEarly(count) == count <= 1
FullyProcessedNever(count) == FALSE
FullyProcessed(count) == count = 0

\* the commit goroutines updateOffset starts for the envelopes of an entry
SpawnCommitsTwice(bag, acks) == BagAdd(bag, Head(acks).Offset, 2)
RECURSIVE SpawnCommits(_, _)
SpawnCommits(bag, acks) ==
    IF acks = <<>> THEN bag
    ELSE SpawnCommits(BagAdd(bag, Head(acks).Offset, 1), Tail(acks))

RECURSIVE UseTimes(_, _)
UseTimes(u, n) == IF n = 0 THEN u ELSE UseTimes(Use(u), n - 1)

\* updateOffset(trackingID) of handler w
UpdateOffset(w, tok) ==
    IF tok \notin DOMAIN trackID[w]
    THEN UNCHANGED <<trackID, trackACK, delay, commitG>>
    ELSE IF FullyProcessed(trackID[w][tok] - 1)
         THEN /\ commitG' = [commitG EXCEPT
                                ![w] = SpawnCommits(@, trackACK[w][tok])]
              /\ delay' = [delay EXCEPT
                              ![w] = UseTimes(@, Len(trackACK[w][tok]))]
              /\ trackID' = [trackID EXCEPT ![w] = MapDelete(@, tok)]
              /\ trackACK' = [trackACK EXCEPT ![w] = MapDelete(@, tok)]
         ELSE /\ trackID' = [trackID EXCEPT ![w][tok] = @ - 1]
              /\ UNCHANGED <<trackACK, delay, commitG>>

\* what the profile cache answers to a lookup: a profile ("hit"), its
\* negative entry ("unconfigured"), or nothing: a miss or a Redis error
CacheAnswers == {"hit", "unconfigured", "error"}

\* Lookup.processRequest: the cache serves a hit and a negative entry;
\* otherwise lookupEye is called, whose "defer resp.Body.Close()" evaluates
\* resp.Body while resp is still nil: a runtime panic
ProcessRequest(answer) ==
    CASE answer = "hit" -> [panic |-> FALSE, err |-> "nil"]
      [] answer = "unconfigured" -> [panic |-> FALSE, err |-> "unconfigured"]
      [] OTHER -> [panic |-> TRUE, err |-> "nil"]

\* Lookup.GetConfigurationID: of the errors of processRequest it returns
\* ErrUnconfigured only, any other one is dropped
GetConfigurationID(answer) ==
    LET req == ProcessRequest(answer)
    IN  [panic |-> req.panic,
         err |-> IF req.err = "unconfigured" THEN "unconfigured" ELSE "nil"]

\* the errors of json.Marshal(&msgs[i]).  It returns none for a MetricSplit
\* that Split built from a parsed batch; a run may be scaled to let it fail
\* on any metric
MarshalErrors == {"nil", "error"}

\* what the loop over the split metrics does with each of them:
\*   send   marshalled and handed to a submission goroutine
\*   skip   json.Marshal failed: "continue"
\*   fatal  GetConfigurationID failed with an error other than
\*          ErrUnconfigured: "t.Death <- err"
\*   panic  the lookup ended the process
Outcome(look, err) ==
    IF look.panic THEN "panic"
    ELSE IF look.err \notin {"nil", "unconfigured"} THEN "fatal"
    ELSE IF err # "nil" THEN "skip"
    ELSE "send"
FatalAt(outs) ==
    IF \E i \in DOMAIN outs : outs[i] = "fatal"
    THEN Min({i \in DOMAIN outs : outs[i] = "fatal"})
    ELSE Len(outs) + 1
\* the submission goroutines that the loop starts
Submitted(outs) ==
    Cardinality({i \in DOMAIN outs : i < FatalAt(outs) /\ outs[i] = "send"})
\* a count of every metric the loop went through
ProducedAll(outs) ==
    Cardinality({i \in DOMAIN outs : i < FatalAt(outs)})
\* "produced++", which follows the go statement
Produced(outs) ==
    Cardinality({i \in DOMAIN outs : i < FatalAt(outs) /\ outs[i] = "send"})

\* "if produced == 0": no metric was handed to a submission goroutine
NoneProducedNever(k) == FALSE
NoneProduced(k) == k = 0

\* process returning on a nil or undecodable Value without any goroutine
CommitDropped(w, msg) ==
    UNCHANGED <<delay, commitG, subG, hbG, trackVars, wpc, produced, owed,
                faults, panic>>

\* the goroutine "t.commit(msg); t.delay.Done()" preceded by t.delay.Use()
CommitWithUse(w, msg) ==
    /\ delay' = [delay EXCEPT ![w] = Use(@)]
    /\ commitG' = [commitG EXCEPT ![w] = BagAdd(@, msg.Offset, 1)]
    /\ UNCHANGED <<subG, hbG, trackVars, wpc, produced, owed, faults,
                   panic>>

\* process(msg) of handler w, called from loop ("run" or "drain"), up to
\* its return or to the blocking "t.Death <- err"
Process(w, msg, loop) ==
    IF msg.Value.kind = "null"
    THEN CommitWithUse(w, msg)
    ELSE IF IsHeartbeat(msg)
    THEN /\ delay' = [delay EXCEPT ![w] = Use(@)]
         /\ hbG' = [hbG EXCEPT ![w] = Append(@, msg.Value.n)]
         /\ UNCHANGED <<subG, commitG, trackVars, wpc, produced, owed, faults,
                        panic>>
    ELSE IF ~ParseOK(msg.Value)
    THEN CommitWithUse(w, msg)
    ELSE \E errs \in [1 .. msg.Value.n -> scale.marshal] :
         LET outs == [i \in 1 .. msg.Value.n |->
                         Outcome(GetConfigurationID(scale.cache), errs[i])]
             k == Produced(outs)
             g == Submitted(outs)
             fatal == FatalAt(outs) <= Len(outs)
             tok == msg.Offset
         IN  IF \E i \in DOMAIN outs : outs[i] = "panic"
             THEN /\ panic' = "nilResponse"
                  /\ UNCHANGED <<delay, commitG, subG, hbG, trackVars, wpc,
                                 produced, owed, faults>>
             ELSE
               /\ UNCHANGED panic
               /\ subG' = [subG EXCEPT ![w] = BagAdd(@, tok, g)]
               /\ owed' = BagAdd(owed, tok, g)
               /\ produced' = BagAdd(produced, tok, g)
               /\ delay' = [delay EXCEPT ![w] = UseTimes(@, g)]
               /\ UNCHANGED hbG
               /\ fatal => MayFail
               /\ faults' = IF fatal THEN faults + 1 ELSE faults
               /\ IF fatal
                  THEN /\ wpc' = [wpc EXCEPT ![w] =
                                    IF loop = "run" THEN "procDeathRun"
                                    ELSE "procDeathDrain"]
                       /\ UNCHANGED <<commitG, trackVars>>
                  ELSE IF NoneProduced(k)
                  THEN \* the commit goroutine is started without Use()
                       /\ commitG' = [commitG EXCEPT
                                         ![w] = BagAdd(@, msg.Offset, 1)]
                       /\ UNCHANGED <<trackVars, wpc>>
                  ELSE /\ trackID' = [trackID EXCEPT ![w] = MapPut(@, tok, k)]
                       /\ trackACK' = [trackACK EXCEPT
                                          ![w] = MapPut(@, tok, <<msg>>)]
                       /\ UNCHANGED <<commitG, wpc>>

InLoop(w) == wpc[w] \in {"run", "drain"}

\* history: the envelope read from Input, heartbeats apart
Received(w, msg) ==
    IF msg.Offset \in Offsets
    THEN [recv EXCEPT ![w] = Append(@, <<msg.HostID, msg.Offset>>)]
    ELSE recv

\* "case msg := <-t.Input" with a message, in runloop and in drainloop
HandlerInput(w) ==
    /\ Alive /\ InLoop(w) /\ input[w] # <<>>
    /\ input' = [input EXCEPT ![w] = Tail(@)]
    /\ recv' = Received(w, Head(input[w]))
    /\ Process(w, Head(input[w]), wpc[w])
    /\ UNCHANGED <<scale, status, split, consVars, dcVars, inputClosed, shutdownClosed, inputEmpty,
                   errorEmpty, successEmpty, producerClosed, prodVars,
                   wallVars, mainVars, notified, payload>>

\* runloop, "case <-t.Shutdown: goto drainloop"
HandlerShutdown(w) ==
    /\ Alive /\ wpc[w] = "run" /\ shutdownClosed[w]
    /\ wpc' = [wpc EXCEPT ![w] = "drain"]
    /\ UNCHANGED <<scale, status, split, faults, consVars, dcVars, chanVars, inputEmpty, errorEmpty,
                   successEmpty, producerClosed, trackVars, goVars, prodVars,
                   wallVars, mainVars, panic, histVars>>

\* a runloop that takes the nil of the closed Input for the end
HandlerRunNilEnds(w) ==
    /\ Alive /\ wpc[w] = "run" /\ input[w] = <<>> /\ inputClosed[w]
    /\ inputEmpty' = [inputEmpty EXCEPT ![w] = TRUE]
    /\ producerClosed' = [producerClosed EXCEPT ![w] = TRUE]
    /\ prodClosed' = [prodClosed EXCEPT ![w] = TRUE]
    /\ UNCHANGED <<scale, status, split, faults, consVars, dcVars, chanVars,
                   errorEmpty, successEmpty, wpc, trackVars, goVars, inflight,
                   wallVars, mainVars, panic, histVars>>

\* runloop, nil read from the closed Input: "continue runloop"
HandlerRunNil(w) ==
    /\ Alive /\ wpc[w] = "run" /\ input[w] = <<>> /\ inputClosed[w]
    /\ UNCHANGED vars

\* "case msg := <-t.producer.Successes()" with a message, in both loops
HandlerSuccess(w, tok) ==
    /\ Alive /\ InLoop(w) /\ inflight[w][tok] > 0
    /\ inflight' = [inflight EXCEPT ![w] = BagAdd(@, tok, -1)]
    /\ owed' = BagAdd(owed, tok, -1)
    /\ UpdateOffset(w, tok)
    /\ UNCHANGED <<scale, status, split, faults, consVars, dcVars, chanVars, runVars, subG, hbG, prodClosed,
                   wallVars, mainVars, panic, produced, notified, recv,
                   payload>>

\* runloop, "case err := <-t.producer.Errors()": "t.Death <- err" blocks
HandlerError(w, tok) ==
    /\ Alive /\ wpc[w] = "run" /\ inflight[w][tok] > 0 /\ MayFail
    /\ faults' = faults + 1
    /\ inflight' = [inflight EXCEPT ![w] = BagAdd(@, tok, -1)]
    /\ wpc' = [wpc EXCEPT ![w] = "errDeath"]
    /\ UNCHANGED <<scale, status, split, consVars, dcVars, chanVars, inputEmpty, errorEmpty,
                   successEmpty, producerClosed, trackVars, goVars,
                   prodClosed, wallVars, mainVars, panic, histVars>>

\* drainloop, "case e := <-t.producer.Errors()" with an error: it is logged
HandlerDrainError(w, tok) ==
    /\ Alive /\ wpc[w] = "drain" /\ inflight[w][tok] > 0 /\ MayFail
    /\ faults' = faults + 1
    /\ inflight' = [inflight EXCEPT ![w] = BagAdd(@, tok, -1)]
    /\ UNCHANGED <<scale, status, split, consVars, dcVars, chanVars, runVars, trackVars, goVars,
                   prodClosed, wallVars, mainVars, panic, histVars>>

\* "if inputEmpty && errorEmpty && successEmpty { break drainloop }"
AfterFlag(w, ie, ee, se) ==
    wpc' = [wpc EXCEPT ![w] = IF ie /\ ee /\ se THEN "wait" ELSE "drain"]

\* a drainloop that reads nil from the closed Input ahead of the envelopes
\* still in it
HandlerDrainNilEarly(w) ==
    /\ Alive /\ wpc[w] = "drain" /\ inputClosed[w]
    /\ inputEmpty' = [inputEmpty EXCEPT ![w] = TRUE]
    /\ producerClosed' = [producerClosed EXCEPT ![w] = TRUE]
    /\ prodClosed' = [prodClosed EXCEPT ![w] = TRUE]
    /\ AfterFlag(w, TRUE, errorEmpty[w], successEmpty[w])
    /\ UNCHANGED <<scale, status, split, faults, consVars, dcVars, chanVars,
                   errorEmpty, successEmpty, trackVars, goVars, inflight,
                   wallVars, mainVars, panic, histVars>>

\* drainloop, nil read from the closed Input: the producer is closed
HandlerDrainNil(w) ==
    /\ Alive /\ wpc[w] = "drain" /\ input[w] = <<>> /\ inputClosed[w]
    /\ inputEmpty' = [inputEmpty EXCEPT ![w] = TRUE]
    /\ producerClosed' = [producerClosed EXCEPT ![w] = TRUE]
    /\ prodClosed' = [prodClosed EXCEPT ![w] = TRUE]
    /\ AfterFlag(w, TRUE, errorEmpty[w], successEmpty[w])
    /\ UNCHANGED <<scale, status, split, faults, consVars, dcVars, chanVars, errorEmpty, successEmpty,
                   trackVars, goVars, inflight, wallVars, mainVars, panic,
                   histVars>>

\* the producer's streams are closed and hold nothing more
StreamsDrained(w) == prodClosed[w] /\ BagEmpty(inflight[w])

\* drainloop, nil read from the closed Errors()
HandlerErrorsNil(w) ==
    /\ Alive /\ wpc[w] = "drain" /\ StreamsDrained(w)
    /\ errorEmpty' = [errorEmpty EXCEPT ![w] = TRUE]
    /\ AfterFlag(w, inputEmpty[w], TRUE, successEmpty[w])
    /\ UNCHANGED <<scale, status, split, faults, consVars, dcVars, chanVars, inputEmpty, successEmpty,
                   producerClosed, trackVars, goVars, prodVars, wallVars,
                   mainVars, panic, histVars>>

\* drainloop, nil read from the closed Successes()
HandlerSuccessesNil(w) ==
    /\ Alive /\ wpc[w] = "drain" /\ StreamsDrained(w)
    /\ successEmpty' = [successEmpty EXCEPT ![w] = TRUE]
    /\ AfterFlag(w, inputEmpty[w], errorEmpty[w], TRUE)
    /\ UNCHANGED <<scale, status, split, faults, consVars, dcVars, chanVars, inputEmpty, errorEmpty,
                   producerClosed, trackVars, goVars, prodVars, wallVars,
                   mainVars, panic, histVars>>

\* "<-t.Shutdown" after a reported death.  After a producer error: break
\* runloop, t.producer.Close(), return (Start returns, waitdelay.Done()).
\* Inside process: process returns and the loop it was called from goes on.
HandlerUnpark(w) ==
    /\ Alive /\ shutdownClosed[w]
    /\ wpc[w] \in {"errPark", "procParkRun", "procParkDrain"}
    /\ IF wpc[w] = "errPark"
       THEN /\ wpc' = [wpc EXCEPT ![w] = "done"]
            /\ prodClosed' = [prodClosed EXCEPT ![w] = TRUE]
            /\ waitdelay' = Done(waitdelay)
       ELSE /\ wpc' = [wpc EXCEPT ![w] =
                          IF wpc[w] = "procParkRun" THEN "run" ELSE "drain"]
            /\ UNCHANGED <<prodClosed, waitdelay>>
    /\ UNCHANGED <<scale, status, split, faults, consVars, dcVars, chanVars, inputEmpty, errorEmpty,
                   successEmpty, producerClosed, trackVars, goVars, inflight,
                   wallVars, mainPc, fault, ticks, hbSend, panic, histVars>>

\* "t.delay.Wait()" returns, run and Start return, waitdelay.Done()
HandlerWait(w) ==
    /\ Alive /\ wpc[w] = "wait" /\ delay[w] = 0
    /\ wpc' = [wpc EXCEPT ![w] = "done"]
    /\ waitdelay' = Done(waitdelay)
    /\ UNCHANGED <<scale, status, split, faults, consVars, dcVars, chanVars, inputEmpty, errorEmpty,
                   successEmpty, producerClosed, trackVars, goVars, prodVars,
                   wallVars, mainPc, fault, ticks, hbSend, panic, histVars>>

\* ------------------------------------------------------------- goroutines
\* the submission goroutine: "t.dispatch <- &sarama.ProducerMessage{...}",
\* t.delay.Done().  A send on the input of a closed producer panics.
SubmissionSend(w, tok) ==
    /\ Alive /\ subG[w][tok] > 0
    /\ IF prodClosed[w]
       THEN /\ panic' = "sendOnClosedProducer"
            /\ UNCHANGED <<subG, delay, inflight>>
       ELSE /\ subG' = [subG EXCEPT ![w] = BagAdd(@, tok, -1)]
            /\ delay' = [delay EXCEPT ![w] = Done(@)]
            /\ inflight' = [inflight EXCEPT ![w] = BagAdd(@, tok, 1)]
            /\ UNCHANGED panic
    /\ UNCHANGED <<scale, status, split, faults, consVars, dcVars, chanVars, runVars, trackVars, commitG,
                   hbG, prodClosed, wallVars, mainVars, histVars>>

\* the commit goroutine: "msg.Commit <- &erebos.Commit{...}", t.delay.Done().
\* The Commit channel of a heartbeat is nil: that send blocks forever.
CommitSend(w, off) ==
    /\ Alive /\ commitG[w][off] > 0 /\ off \in Offsets
    /\ commitG' = [commitG EXCEPT ![w] = BagAdd(@, off, -1)]
    /\ delay' = [delay EXCEPT ![w] = Done(@)]
    /\ notify' = Send(notify, off)
    /\ notified' = BagAdd(notified, off, 1)
    /\ UNCHANGED <<scale, status, split, faults, consVars, dcPc, dcOffsets, uncommitted, cgCommits,
                   chanVars, runVars, trackVars, subG, hbG, prodVars,
                   wallVars, mainVars, panic, produced, owed, recv,
                   payload>>

\* a map that stores the timestamp of whichever call comes last
HeartbeatMapLast(hb, handlerNum, ts) ==
    [hb EXCEPT ![-1] = ts, ![handlerNum] = ts]

\* Lookup.Heartbeat(appname, handlerNum, binTime) under beats.lock
HeartbeatMap(hb, handlerNum, ts) ==
    LET first == IF hb[-1] = 0 \/ ts > hb[-1]
                 THEN [hb EXCEPT ![-1] = ts] ELSE hb
    IN  IF ts > first[handlerNum]
        THEN [first EXCEPT ![handlerNum] = ts] ELSE first

\* the heartbeat goroutine of process: t.lookup.Heartbeat(.., t.Num, ..),
\* t.delay.Done()
HeartbeatCall(w) ==
    /\ Alive /\ hbG[w] # <<>>
    /\ \E i \in 1 .. Len(hbG[w]) :
         /\ beats' = HeartbeatMap(beats, w, hbG[w][i])
         /\ hbCalls' = hbCalls \cup {<<w, hbG[w][i]>>}
         /\ hbG' = [hbG EXCEPT ![w] = RemoveAt(@, i)]
    /\ delay' = [delay EXCEPT ![w] = Done(@)]
    /\ UNCHANGED <<scale, status, split, faults, consVars, dcVars, chanVars, runVars, trackVars, subG,
                   commitG, prodVars, mainVars, panic, histVars>>

\* main's heartbeat goroutine: "Handlers[i].InputChannel() <-
\* erebos.NewHeartbeat()", waitdelay.Done()
HeartbeatSend(w, ts) ==
    /\ Alive /\ <<w, ts>> \in hbSend
    /\ IF inputClosed[w]
       THEN /\ panic' = "sendOnClosedInput"
            /\ UNCHANGED <<input, hbSend, waitdelay>>
       ELSE /\ Len(input[w]) < scale.queue
            /\ input' = [input EXCEPT ![w] = Send(@, NewHeartbeat(ts))]
            /\ hbSend' = hbSend \ {<<w, ts>>}
            /\ waitdelay' = Done(waitdelay)
            /\ UNCHANGED panic
    /\ UNCHANGED <<scale, status, split, faults, consVars, dcVars, inputClosed, shutdownClosed, runVars,
                   trackVars, goVars, prodVars, wallVars, mainPc, fault,
                   ticks, histVars>>

\* ------------------------------------------------------------- supervisor
\* the goroutines blocked in a send on handlerDeath: -1 is the consumer
DeathSenders ==
    (IF consPc \in {"joinDeath", "errDeath"} THEN {-1} ELSE {})
        \cup {w \in Workers :
                wpc[w] \in {"errDeath", "procDeathRun", "procDeathDrain"}}

\* where a handler is once its send on Death was received: in the
\* "<-t.Shutdown" that follows
ParkedNowhere(pc) ==
    CASE pc = "errDeath" -> "run"
      [] pc = "procDeathRun" -> "run"
      [] OTHER -> "drain"
Parked(pc) ==
    CASE pc = "errDeath" -> "errPark"
      [] pc = "procDeathRun" -> "procParkRun"
      [] OTHER -> "procParkDrain"

\* a receive from handlerDeath lets sender s go on: the consumer returns
\* (join failure) or leaves its runloop, a handler goes on to "<-t.Shutdown"
DeathReceived(s) ==
    IF s = -1
    THEN /\ consPc' = IF consPc = "joinDeath" THEN "returned" ELSE "waitDone"
         /\ waitdelay' = IF consPc = "joinDeath" THEN Done(waitdelay)
                         ELSE waitdelay
         /\ UNCHANGED wpc
    ELSE /\ wpc' = [wpc EXCEPT ![s] = Parked(wpc[s])]
         /\ UNCHANGED <<consPc, waitdelay>>

\* main loop, "case <-c": close(ms.Shutdown), close(consumerShutdown)
MainSignal ==
    /\ Alive /\ mainPc = "run"
    /\ mainPc' = "waitExit" /\ consShutdown' = TRUE
    /\ UNCHANGED <<scale, status, split, faults, consPc, consCur, delivered, consExit, cgClosed,
                   dcVars, chanVars, runVars, trackVars, goVars, prodVars,
                   wallVars, fault, ticks, hbSend, waitdelay, panic,
                   histVars>>

\* main loop, "case err := <-handlerDeath": fault = true, then as above
MainDeath ==
    /\ Alive /\ mainPc = "run"
    /\ \E s \in DeathSenders : DeathReceived(s)
    /\ fault' = TRUE
    /\ mainPc' = "waitExit" /\ consShutdown' = TRUE
    /\ UNCHANGED <<scale, status, split, faults, consCur, delivered, consExit, cgClosed, dcVars,
                   chanVars, inputEmpty, errorEmpty, successEmpty,
                   producerClosed, trackVars, goVars, prodVars, wallVars,
                   ticks, hbSend, panic, histVars>>

\* a main that sends the heartbeats itself: it is in the sends until every
\* Input has taken its heartbeat
MainHeartbeatInline ==
    /\ Alive /\ mainPc = "run" /\ ticks < scale.ticks
    /\ ticks' = ticks + 1
    /\ hbSend' = hbSend \cup {<<w, ticks + 1>> : w \in Workers}
    /\ waitdelay' = UseTimes(waitdelay, scale.cpus)
    /\ mainPc' = "beat"
    /\ UNCHANGED <<scale, status, split, faults, consVars, dcVars, chanVars,
                   runVars, trackVars, goVars, prodVars, wallVars, fault,
                   panic, histVars>>

\* main loop, "case <-heartbeat": one sender goroutine per handler
MainHeartbeat ==
    /\ Alive /\ mainPc = "run" /\ ticks < scale.ticks
    /\ ticks' = ticks + 1
    /\ hbSend' = hbSend \cup {<<w, ticks + 1>> : w \in Workers}
    /\ waitdelay' = UseTimes(waitdelay, scale.cpus)
    /\ UNCHANGED <<scale, status, split, faults, consVars, dcVars, chanVars, runVars, trackVars, goVars,
                   prodVars, wallVars, mainPc, fault, panic, histVars>>

\* main going on to close the handlers without the receive below
MainConsumerNotAwaited ==
    /\ Alive /\ mainPc = "waitExit"
    /\ mainPc' = "closeHandlers"
    /\ UNCHANGED <<scale, status, split, faults, consVars, dcVars, chanVars, runVars,
                   trackVars, goVars, prodVars, wallVars, fault, ticks,
                   hbSend, waitdelay, panic, histVars>>

\* "<-consumerExit"
MainConsumerGone ==
    /\ Alive /\ mainPc = "waitExit" /\ consExit
    /\ mainPc' = "closeHandlers"
    /\ UNCHANGED <<scale, status, split, faults, consVars, dcVars, chanVars, runVars, trackVars, goVars,
                   prodVars, wallVars, fault, ticks, hbSend, waitdelay,
                   panic, histVars>>

\* "close(twister.Handlers[i].ShutdownChannel())" for the next handler of
\* the range over the Handlers map, in the map's order
MainCloseShutdown(w) ==
    /\ Alive /\ mainPc = "closeHandlers"
    /\ \A x \in Workers : shutdownClosed[x] = inputClosed[x]
    /\ ~shutdownClosed[w]
    /\ shutdownClosed' = [shutdownClosed EXCEPT ![w] = TRUE]
    /\ UNCHANGED <<scale, status, split, faults, consVars, dcVars, input, inputClosed, runVars, trackVars,
                   goVars, prodVars, wallVars, mainVars, panic, histVars>>

\* "close(twister.Handlers[i].InputChannel())" of the same handler; after
\* the last one main enters its drainloop
MainCloseInput(w) ==
    /\ Alive /\ mainPc = "closeHandlers"
    /\ shutdownClosed[w] /\ ~inputClosed[w]
    /\ inputClosed' = [inputClosed EXCEPT ![w] = TRUE]
    /\ mainPc' = IF \A x \in Workers \ {w} : inputClosed[x]
                 THEN "drain" ELSE "closeHandlers"
    /\ UNCHANGED <<scale, status, split, faults, consVars, dcVars, input, shutdownClosed, runVars,
                   trackVars, goVars, prodVars, wallVars, fault, ticks,
                   hbSend, waitdelay, panic, histVars>>

\* drainloop, "case err := <-handlerDeath"
MainDrainDeath ==
    /\ Alive /\ mainPc = "drain"
    /\ \E s \in DeathSenders : DeathReceived(s)
    /\ UNCHANGED <<scale, status, split, faults, consCur, delivered, consShutdown, consExit,
                   cgClosed, dcVars, chanVars, inputEmpty, errorEmpty,
                   successEmpty, producerClosed, trackVars, goVars, prodVars,
                   wallVars, mainPc, fault, ticks, hbSend, panic, histVars>>

\* drainloop, "case <-time.After(time.Millisecond * 10): break drainloop"
MainDrainTimeout ==
    /\ Alive /\ mainPc = "drain"
    /\ mainPc' = "wait"
    /\ UNCHANGED <<scale, status, split, faults, consVars, dcVars, chanVars, runVars, trackVars, goVars,
                   prodVars, wallVars, fault, ticks, hbSend, waitdelay,
                   panic, histVars>>

\* "if fault { os.Exit(1) }", else main returns: the exit status
ExitStatusZero(f) == 0
ExitStatus(f) == IF f THEN 1 ELSE 0

\* "waitdelay.Wait()" returns and main returns (os.Exit(1) on fault)
MainExit ==
    /\ Alive /\ mainPc = "wait" /\ waitdelay = 0
    /\ mainPc' = "exit"
    /\ status' = <<ExitStatus(fault)>>
    /\ UNCHANGED <<scale, split, faults, consVars, dcVars, chanVars, runVars, trackVars, goVars,
                   prodVars, wallVars, fault, ticks, hbSend, waitdelay,
                   panic, histVars>>

ConsumerNext ==
    \/ ConsumerJoin \/ ConsumerJoinFail \/ ConsumerMessage
    \/ ConsumerDispatchSend \/ ConsumerError \/ ConsumerShutdown
    \/ ConsumerClose

CommitNext ==
    \/ DelayedCommitNotify
    \/ \E w \in Workers : \E off \in Offsets : CommitSend(w, off)

HandlerNext ==
    \E w \in Workers :
        \/ HandlerInput(w) \/ HandlerShutdown(w) \/ HandlerRunNil(w)
        \/ HandlerDrainNil(w) \/ HandlerErrorsNil(w)
        \/ HandlerSuccessesNil(w) \/ HandlerUnpark(w) \/ HandlerWait(w)
        \/ \E tok \in Offsets :
             \/ HandlerSuccess(w, tok) \/ HandlerError(w, tok)
             \/ HandlerDrainError(w, tok) \/ SubmissionSend(w, tok)

MainNext ==
    \/ MainSignal \/ MainDeath \/ MainConsumerGone
    \/ MainDrainDeath \/ MainDrainTimeout \/ MainExit
    \/ \E w \in Workers : MainCloseShutdown(w) \/ MainCloseInput(w)

BeatNext ==
    \/ MainHeartbeat
    \/ \E w \in Workers :
         \/ HeartbeatCall(w)
         \/ \E ts \in 1 .. scale.ticks : HeartbeatSend(w, ts)

\* host ids of the delivered batches: two handlers' worth, a negative one
PipeHosts == {-1, 1, 2}
\* with heartbeat ticks: the batches of one host, so that one handler reads
\* batches and heartbeats and the other heartbeats only
BeatHosts == {1}

\* the pipeline without heartbeat ticks
Init ==
    Start(Scale(NumCPU, PipeMsgs, PipeRecs, 0, PipeHosts, MaxFaults, PipeQueue,
               "hit"))
Next ==
    \/ ConsumerNext \/ CommitNext \/ DelayedCommitShutdown
    \/ HandlerNext \/ MainNext
Spec == Init /\ [][Next]_vars

\* the pipeline with heartbeat ticks
InitBeat ==
    Start(Scale(NumCPU, BeatMsgs, BeatRecs, BeatTicks, BeatHosts, MaxFaults,
                BeatQueue, "hit"))
NextBeat == Next \/ BeatNext
SpecBeat == InitBeat /\ [][NextBeat]_vars

\* DelayedCommit behind the running pipeline: CommitMsgs messages of empty
\* or undecodable batches, no heartbeat tick, no failure, no shutdown
CommitHosts == {1, 2}
InitCommit ==
    Start(Scale(NumCPU, CommitMsgs, 0, 0, CommitHosts, 0, PipeQueue, "hit"))
NextCommit ==
    \/ ConsumerJoin \/ ConsumerMessage \/ ConsumerDispatchSend
    \/ \E w \in Workers : HandlerInput(w)
    \/ CommitNext
SpecCommit == InitCommit /\ [][NextCommit]_vars

\* Dispatch on its own: one message of any host id in -HostRange .. HostRange
\* is handed to Dispatch over 1 .. MaxCPUs handlers
DispatchHosts == (-HostRange) .. HostRange
InitDispatch ==
    \E cpus \in 1 .. MaxCPUs :
        Start(Scale(cpus, 1, 0, 0, DispatchHosts, 0, PipeQueue,
                    "hit"))
NextDispatch == ConsumerJoin \/ ConsumerMessage
SpecDispatch == InitDispatch /\ [][NextDispatch]_vars

\* process on any payload: the consumer has joined, and the first message
\* is in the Input of handler key, put there by whoever holds the handler's
\* InputChannel().  Its payload is any of the upstream ones or nil, which
\* Dispatch itself never forwards (PeekHostID fails on it).
ProcHosts == {1, 2}
ProcessValues(hosts, recs) ==
    (UpstreamValues(hosts, recs) \ {Payload("garbage", 0, 0)})
        \cup {Payload("null", h, 0) : h \in hosts}
InitProcess ==
    \E v \in ProcessValues(ProcHosts, ProcRecs) :
        LET sc == Scale(NumCPU, ProcMsgs, ProcRecs, 0, ProcHosts, MaxFaults,
                        PipeQueue, "hit")
            key == HandlerKey(v.host_id, NumCPU)
            msg == Transport(v.host_id, v, Topic, Partition, FirstOffset)
        IN  StartWith(sc, "run", "run",
                      [w \in 0 .. (sc.cpus - 1) |->
                          IF w = key THEN <<msg>> ELSE <<>>],
                      1,
                      [o \in FirstOffset .. (FirstOffset + sc.msgs - 1) |->
                          IF o = FirstOffset THEN v ELSE NoMsg.Value])
NextProcess ==
    \/ ConsumerMessage \/ ConsumerDispatchSend \/ ConsumerError
    \/ ConsumerShutdown \/ ConsumerClose
    \/ CommitNext \/ DelayedCommitShutdown
    \/ HandlerNext \/ MainNext
SpecProcess == InitProcess /\ [][NextProcess]_vars

\* the pipeline under fair scheduling.  The Go scheduler runs every
\* goroutine that can take a step, and select picks among its ready cases at
\* random, so a step that stays possible is taken.  What the environment
\* decides is not fair: the arrival of a message, of a signal, a failure.
LiveHosts == {1}
LiveWorkers == 0 .. (NumCPU - 1)
LiveOffsets == FirstOffset .. (FirstOffset + LiveMsgs - 1)
InitLive ==
    Start(Scale(NumCPU, LiveMsgs, LiveRecs, 0, LiveHosts, MaxFaults,
                PipeQueue, "hit"))
NextLive ==
    \/ ConsumerJoin \/ ConsumerJoinFail \/ ConsumerMessage \/ ConsumerError
    \/ ConsumerShutdown \/ ConsumerClose
    \/ CommitNext \/ DelayedCommitShutdown
    \/ HandlerNext \/ MainNext
Fairness ==
    /\ WF_vars(ConsumerJoin) /\ WF_vars(ConsumerShutdown)
    /\ WF_vars(ConsumerClose)
    /\ WF_vars(DelayedCommitNotify) /\ WF_vars(DelayedCommitShutdown)
    /\ WF_vars(MainDeath) /\ WF_vars(MainConsumerGone)
    /\ WF_vars(MainDrainDeath) /\ WF_vars(MainDrainTimeout)
    /\ WF_vars(MainExit)
    /\ \A w \in LiveWorkers :
         /\ WF_vars(MainCloseShutdown(w)) /\ WF_vars(MainCloseInput(w))
         /\ WF_vars(HandlerInput(w)) /\ WF_vars(HandlerShutdown(w))
         /\ WF_vars(HandlerDrainNil(w)) /\ WF_vars(HandlerErrorsNil(w))
         /\ WF_vars(HandlerSuccessesNil(w)) /\ WF_vars(HandlerUnpark(w))
         /\ WF_vars(HandlerWait(w))
         /\ \A tok \in LiveOffsets :
              /\ WF_vars(HandlerSuccess(w, tok))
              /\ WF_vars(SubmissionSend(w, tok))
              /\ WF_vars(CommitSend(w, tok))
SpecLive == InitLive /\ [][NextLive]_vars /\ Fairness

\* the heartbeats on their own: main's ticker, its sender goroutines, the
\* handlers reading the heartbeats and their Heartbeat goroutines, with no
\* message from upstream and no shutdown
InitWall ==
    Start(Scale(NumCPU, 0, 0, WallTicks, {}, 0, BeatQueue, "hit"))
NextWall ==
    \/ BeatNext
    \/ \E w \in Workers : HandlerInput(w)
SpecWall == InitWall /\ [][NextWall]_vars

\* the pipeline in front of any profile cache: the cache answers every
\* lookup of the run with a profile, with its negative entry, or not at all
InitLookup ==
    \E answer \in CacheAnswers :
        Start(Scale(NumCPU, LiveMsgs, LiveRecs, 0, LiveHosts, MaxFaults,
                    PipeQueue, answer))
SpecLookup == InitLookup /\ [][NextLive]_vars

\* main's loop with heartbeat ticks that find the Inputs full: an Input
\* holds one envelope and the ticker fires TickTicks times, while the
\* handlers read their Inputs; the consumer joins, and may fail, with no
\* message from upstream
InitTick ==
    Start(Scale(NumCPU, 0, 0, TickTicks, {}, MaxFaults, PipeQueue, "hit"))
NextTick ==
    \/ ConsumerJoin \/ ConsumerJoinFail \/ ConsumerError
    \/ BeatNext
    \/ \E w \in Workers : HandlerInput(w)
    \/ MainSignal \/ MainDeath
SpecTick == InitTick /\ [][NextTick]_vars

\* the pipeline with metrics on which json.Marshal may fail
InitMarshal ==
    Start([Scale(NumCPU, MarshalMsgs, MarshalRecs, 0, LiveHosts, MaxFaults,
                 PipeQueue, "hit") EXCEPT !.marshal = MarshalErrors])
SpecMarshal == InitMarshal /\ [][NextLive]_vars

\* ------------------------------------------------------- MetricBatch.Split
\* the repository holds two copies of Split: legacy/split.go, which calls
\* wg.Add(1) and cwg.Add(1) before each go statement and Done() at the end of
\* each goroutine, and the copy in which Add(1) is the first statement of
\* the goroutine and Done() is never called
SplitCopies == {"split.go", "part_008"}
Kinds == {"real", "string", "integer"}
\* a data block: how many float, string and integer metrics it holds
Blocks == [Kinds -> 0 .. SplitMetrics]
Length(block) == block["real"] + block["string"] + block["integer"]

RECURSIVE SeqsOf(_, _)
SeqsOf(S, n) ==
    IF n = 0 THEN {<<>>}
    ELSE {Append(q, x) : q \in SeqsOf(S, n - 1), x \in S}

\* the metrics of a batch, as <<data block, type, index>>
MetricsOf(data) ==
    {m \in (1 .. Len(data)) \X Kinds \X (1 .. SplitMetrics) :
        m[3] <= data[m[1]][m[2]]}

\* Split is called on a batch of the data blocks data: res is empty, the
\* loop is at the first data block
SplitCall(copy, data) ==
    [copy |-> copy, data |-> data, iter |-> 1, pc |-> "spawn",
     feed |-> [b \in 1 .. Len(data) |->
                 [k \in Kinds |-> [pc |-> "idle", left |-> data[b][k]]]],
     col |-> [b \in 1 .. Len(data) |-> "idle"],
     collect |-> [b \in 1 .. Len(data) |-> <<>>],
     closed |-> [b \in 1 .. Len(data) |-> FALSE],
     wg |-> [b \in 1 .. Len(data) |-> 0],
     cwg |-> [b \in 1 .. Len(data) |-> 0],
     res |-> <<>>, ret |-> <<>>, panic |-> "none"]

pipeVars ==
    <<scale, status, faults, consVars, dcVars, chanVars, runVars, trackVars,
      goVars, prodVars, wallVars, mainVars, panic, histVars>>

SplitRuns == split.pc # "idle" /\ split.panic = "none"

\* the loop body up to wg.Wait(): make(chan MetricSplit, length) and the
\* four go statements, with the Add(1) calls that precede them in split.go
SplitSpawn ==
    /\ SplitRuns /\ split.pc = "spawn"
    /\ LET b == split.iter
           first == IF split.copy = "split.go" THEN "run" ELSE "start"
       IN  split' = [split EXCEPT
                        !.pc = "wgWait",
                        !.feed[b] = [k \in Kinds |->
                                       [pc |-> first, left |-> @[k].left]],
                        !.col[b] = first,
                        !.wg[b] = IF split.copy = "split.go" THEN 3 ELSE 0,
                        !.cwg[b] = IF split.copy = "split.go" THEN 1 ELSE 0]
    /\ UNCHANGED pipeVars

\* a step of the feeder goroutine of type k of data block b: its wg.Add(1)
\* (part_008), the send of its next metric into collect, which panics on
\* the closed channel, or its end, with wg.Done() (split.go)
SplitFeeder(b, k) ==
    /\ SplitRuns /\ b <= Len(split.data)
    /\ split.feed[b][k].pc \in {"start", "run"}
    /\ LET f == split.feed[b][k]
       IN  IF f.pc = "start"
           THEN split' = [split EXCEPT !.feed[b][k].pc = "run",
                                       !.wg[b] = @ + 1]
           ELSE IF f.left > 0
           THEN IF split.closed[b]
                THEN split' = [split EXCEPT !.panic = "sendOnClosedCollect"]
                ELSE /\ Len(split.collect[b]) < Length(split.data[b])
                     /\ split' = [split EXCEPT
                                     !.collect[b] = Append(@, <<b, k, f.left>>),
                                     !.feed[b][k].left = @ - 1]
           ELSE split' = [split EXCEPT
                             !.feed[b][k].pc = "done",
                             !.wg[b] = IF split.copy = "split.go"
                                       THEN @ - 1 ELSE @]
    /\ UNCHANGED pipeVars

\* a step of the collector goroutine of data block b: its cwg.Add(1)
\* (part_008), "res = append(res, elem)" for the next element of collect,
\* or the end of its range over the closed channel, with cwg.Done()
\* (split.go)
SplitCollector(b) ==
    /\ SplitRuns /\ b <= Len(split.data)
    /\ split.col[b] \in {"start", "run"}
    /\ IF split.col[b] = "start"
       THEN split' = [split EXCEPT !.col[b] = "run", !.cwg[b] = @ + 1]
       ELSE IF split.collect[b] # <<>>
       THEN split' = [split EXCEPT
                         !.res = Append(@, Head(split.collect[b])),
                         !.collect[b] = Tail(@)]
       ELSE /\ split.closed[b]
            /\ split' = [split EXCEPT
                            !.col[b] = "done",
                            !.cwg[b] = IF split.copy = "split.go"
                                       THEN @ - 1 ELSE @]
    /\ UNCHANGED pipeVars

\* wg.Wait() returns
SplitWait ==
    /\ SplitRuns /\ split.pc = "wgWait" /\ split.wg[split.iter] = 0
    /\ split' = [split EXCEPT !.pc = "close"]
    /\ UNCHANGED pipeVars

\* close(collect)
SplitClose ==
    /\ SplitRuns /\ split.pc = "close"
    /\ split' = [split EXCEPT !.pc = "cwgWait", !.closed[split.iter] = TRUE]
    /\ UNCHANGED pipeVars

\* what Split returns: the slice res as it is at the return
Returned(res) == res

\* cwg.Wait() returns: the next data block, or "return res"
SplitCollectWait ==
    /\ SplitRuns /\ split.pc = "cwgWait" /\ split.cwg[split.iter] = 0
    /\ IF split.iter < Len(split.data)
       THEN split' = [split EXCEPT !.pc = "spawn", !.iter = @ + 1]
       ELSE split' = [split EXCEPT !.pc = "returned",
                                   !.ret = Returned(split.res)]
    /\ UNCHANGED pipeVars

\* Split on any batch of one or two data blocks, in either copy.  In
\* part_008 the goroutines of a data block may outlive its loop iteration
\* and read the loop variable iter of a later one; its batches have one
\* data block.
InitSplit ==
    \E copy \in SplitCopies :
        \E n \in 1 .. (IF copy = "split.go" THEN SplitBlocks ELSE 1) :
            \E data \in SeqsOf(Blocks, n) :
                /\ StartPipe(Scale(NumCPU, 0, SplitMetrics, 0, {}, 0,
                                   PipeQueue, "hit"),
                             "run", "run", [w \in 0 .. (NumCPU - 1) |-> <<>>],
                             0, [o \in {} |-> NoMsg.Value])
                /\ split = SplitCall(copy, data)
NextSplit ==
    \/ SplitSpawn \/ SplitWait \/ SplitClose \/ SplitCollectWait
    \/ \E b \in 1 .. SplitBlocks : SplitCollector(b)
    \/ \E b \in 1 .. SplitBlocks : \E k \in Kinds : SplitFeeder(b, k)
SpecSplit == InitSplit /\ [][NextSplit]_vars

\* ------------------------------------------------------------- properties
\* offsets of the messages read from consumer.Messages() so far
DeliveredOffsets == FirstOffset .. (FirstOffset + delivered - 1)

\* the envelopes handler w has read from Input
ReadBy(w) == {recv[w][i][2] : i \in 1 .. Len(recv[w])}
HostOf(w, o) ==
    LET i == CHOOSE j \in 1 .. Len(recv[w]) : recv[w][j][2] = o
    IN  recv[w][i][1]

\* how often x occurs in the sequence q
Count(q, x) == Cardinality({i \in 1 .. Len(q) : q[i] = x})

\* C1: a commit notification for an envelope that produced n >= 1 submitted
\* records is emitted (its commit goroutine started, or its notification
\* sent) only when the handler has received a success for each of the n
\* records: none of them is still owed.
C1CommitAfterAllAcks ==
    \A w \in Workers : \A o \in Offsets :
        (produced[o] >= 1 /\ (commitG[w][o] > 0 \/ notified[o] > 0))
            => owed[o] = 0

\* a batch that produced two records had its notification sent after the
\* handlers' Shutdown channels began to be closed
C1Witness ==
    /\ \E w \in Workers : shutdownClosed[w]
    /\ \E o \in Offsets : produced[o] >= 2 /\ notified[o] > 0

\* C2: whenever offset k was passed to CommitUpto, no envelope delivered
\* with an offset <= k has a derived record that is not acknowledged.
C2CommitCoversOnlyAcked ==
    \A i \in 1 .. Len(cgCommits) : \A o \in DeliveredOffsets :
        o <= cgCommits[i] => owed[o] = 0

\* C3: the offsets passed to CommitUpto are delivered offsets, and each one
\* is the one before it plus 1.
C3CommitsContiguous ==
    \A i \in 1 .. Len(cgCommits) :
        /\ cgCommits[i] \in DeliveredOffsets
        /\ i > 1 => cgCommits[i] = cgCommits[i - 1] + 1

\* C4: a notification whose offset is greater than the last committed
\* offset + 1 is not committed when DelayedCommit receives it: it joins the
\* uncommitted list.
C4GapIsStored ==
    [][(/\ dcPc = "run" /\ notify # <<>> /\ notify' = Tail(notify)
        /\ cgCommits # <<>>
        /\ Head(notify) > cgCommits[Len(cgCommits)] + 1)
       => (/\ cgCommits' = cgCommits
           /\ uncommitted' = Append(uncommitted, Head(notify)))]_vars

\* C5: Dispatch finds a handler for every host id: the lookup of
\* hostID % NumCPU in Handlers never yields nil, and a message in the Input
\* of handler w has a host id congruent to w modulo the number of handlers.
C5DispatchTotal ==
    /\ panic # "nilHandler"
    /\ \A w \in Workers : \A i \in 1 .. Len(input[w]) :
         input[w][i].HostID % scale.cpus = w

\* C6: a handler reads envelopes of one host id in the order of their
\* delivery (ascending offsets), and only the handler that owns the host id
\* reads them.
C6ReceiveOrder ==
    \A w \in Workers : \A i, j \in 1 .. Len(recv[w]) :
        /\ HandlerKey(recv[w][i][1], scale.cpus) = w
        /\ (i < j /\ recv[w][i][1] = recv[w][j][1])
              => recv[w][i][2] < recv[w][j][2]

\* a handler has read two envelopes of one host id and a heartbeat went
\* through its Input as well
C6Witness ==
    \E w \in Workers :
        /\ Len(recv[w]) >= 2
        /\ recv[w][1][1] = recv[w][2][1]
        /\ \E ts \in 1 .. scale.ticks : <<w, ts>> \in hbCalls

\* C7: while a record of envelope e1 waits in its submission goroutine, no
\* record of a later envelope e2 of the same host id has been sent to the
\* producer's input.
C7DownstreamOrder ==
    \A w \in Workers : \A e1, e2 \in ReadBy(w) :
        (e1 < e2 /\ HostOf(w, e1) = HostOf(w, e2) /\ subG[w][e1] > 0)
            => subG[w][e2] = produced[e2]

\* C8: no send on a closed Input: none panics, and when a handler's Input
\* is closed neither Dispatch nor a heartbeat sender goroutine is about to
\* send to it.
C8NoSendOnClosedInput ==
    /\ panic # "sendOnClosedInput"
    /\ \A w \in Workers :
         inputClosed[w] =>
            /\ ~(consPc = "dispatch"
                   /\ HandlerKey(consCur.HostID, scale.cpus) = w)
            /\ \A ts \in 1 .. scale.ticks : <<w, ts>> \notin hbSend

\* C9: no send to the input of a closed producer: none panics, and when a
\* handler has called Close on its producer none of its submission
\* goroutines is still about to send.
C9NoSubmissionAfterClose ==
    /\ panic # "sendOnClosedProducer"
    /\ \A w \in Workers : prodClosed[w] => BagEmpty(subG[w])

\* C10: a heartbeat starts no commit goroutine and no submission goroutine
\* and installs no trackID / trackACK entry; each heartbeat of tick ts sent
\* to handler w is in exactly one place: with its sender, in the Input of
\* w, with the Heartbeat goroutine of w, or called as Heartbeat(w, ts).
C10HeartbeatOnlyBeats ==
    /\ notified[-1] = 0 /\ produced[-1] = 0
    /\ \A w \in Workers :
         /\ commitG[w][-1] = 0 /\ subG[w][-1] = 0 /\ inflight[w][-1] = 0
         /\ -1 \notin DOMAIN trackID[w] /\ -1 \notin DOMAIN trackACK[w]
         /\ \A ts \in 1 .. ticks :
              (IF <<w, ts>> \in hbSend THEN 1 ELSE 0)
                + Count(input[w], NewHeartbeat(ts))
                + Count(hbG[w], ts)
                + (IF <<w, ts>> \in hbCalls THEN 1 ELSE 0)
                = 1

\* both handlers processed their heartbeat of the first tick
C10Witness ==
    \A w \in Workers : <<w, 1>> \in hbCalls /\ hbG[w] = <<>>

\* C11: an ack on the producer's error stream counts like a success: the
\* outstanding count of an installed token is the number of its records
\* that have no terminal ack yet (still with a submission goroutine, or
\* accepted by the producer and neither acknowledged nor failed).
C11ErrorAckDecrements ==
    \A w \in Workers : \A tok \in DOMAIN trackID[w] :
        trackID[w][tok] = subG[w][tok] + inflight[w][tok]

\* commit goroutines started for the envelope of offset o and still to send
PendingCommits(o) == {w \in Workers : commitG[w][o] > 0}

\* C12: an envelope gets at most one commit notification, whichever path of
\* process or updateOffset handles it: one commit goroutine at most is
\* started for it, and it sends one notification.
C12AtMostOneCommit ==
    \A o \in Offsets :
        /\ Cardinality(PendingCommits(o)) <= 1
        /\ \A w \in Workers : notified[o] + commitG[w][o] <= 1

\* the notification of a nil payload and of a batch with a metric were sent
C12Witness ==
    /\ payload[FirstOffset].kind = "null" /\ notified[FirstOffset] = 1
    /\ \E o \in Offsets : produced[o] >= 1 /\ notified[o] = 1

\* CommitUpto was called with the offset o or a higher one
Covered(o) == \E i \in 1 .. Len(cgCommits) : cgCommits[i] >= o

\* C13: when main has returned after a shutdown signal, with no fault and
\* no failure, every delivered envelope either had no record submitted and
\* is not committed, or has every submitted record acknowledged and is
\* committed.
C13ExitLeavesNothingHalfDone ==
    (mainPc = "exit" /\ ~fault /\ faults = 0 /\ panic = "none")
        => \A o \in DeliveredOffsets :
              \/ produced[o] = 0 /\ ~Covered(o)
              \/ owed[o] = 0 /\ Covered(o)

\* C14: a token that is installed when main has left its loop on a shutdown
\* signal is retired later on, and the commit notification of its envelope
\* is processed by DelayedCommit (unless a failure or a panic intervenes).
C14InFlightIsCommitted ==
    (/\ mainPc = "waitExit" /\ ~fault /\ faults = 0
     /\ \E w \in LiveWorkers : FirstOffset \in DOMAIN trackID[w])
        ~> (\/ \E i \in 1 .. Len(cgCommits) : cgCommits[i] = FirstOffset
            \/ faults > 0 \/ panic # "none")

\* C15: under fair scheduling, once main has left its loop (on a signal or
\* on a fatal error report) the shutdown sequence completes and main
\* returns.
C15ShutdownCompletes ==
    (mainPc # "run") ~> (mainPc = "exit" \/ panic # "none")

\* C16: the exit status is non-zero exactly when main left its loop on a
\* report received from handlerDeath; a signal gives status 0.  Main leaves
\* the loop with fault set iff the step received from a sender blocked on
\* handlerDeath, nothing changes fault afterwards, and the status at exit is
\* non-zero iff fault is set.
C16ExitStatus ==
    [][/\ (mainPc = "run" /\ mainPc' # "run")
            => (fault' <=> DeathSenders' # DeathSenders)
       /\ (mainPc # "run") => (fault' = fault)
       /\ (mainPc' = "exit") => (status' # <<0>> <=> fault')]_vars
C16Witness ==
    /\ mainPc = "exit" /\ fault /\ status = <<1>>
    /\ DeathSenders = {}

\* C17: main closes no handler channel before the consumer has closed its
\* exit channel; of each handler the Shutdown channel is closed before the
\* Input channel; and once the consumer has closed exit, Dispatch is not
\* called again: no message is delivered and no Input channel grows.
C17CloseAfterConsumerExit ==
    [][/\ (\E w \in Workers : shutdownClosed'[w] \/ inputClosed'[w])
            => consExit'
       /\ \A w \in Workers : inputClosed'[w] => shutdownClosed'[w]
       /\ consExit => /\ delivered' = delivered
                      /\ \A w \in Workers : Len(input'[w]) <= Len(input[w])
      ]_vars
C17Witness ==
    /\ consExit /\ delivered >= 1
    /\ \A w \in Workers : shutdownClosed[w] /\ inputClosed[w]
    /\ \E w \in Workers : wpc[w] = "done" /\ recv[w] # <<>>

\* a Value process gives up on: nil, or one json.Unmarshal rejects
Unprocessable(value) == value.kind = "null" \/ ~ParseOK(value)

\* C18: an envelope with a nil payload or a payload the parser rejects gets
\* exactly one commit notification (pending in its goroutine or sent), no
\* record is submitted for it and no in-flight entry is made; the step that
\* reads it starts that one commit, touches neither the submissions nor the
\* tracking maps, and leaves the handler in the loop it was in.
C18SkippedIsCommittedOnce ==
    [][/\ \A o \in Offsets : \A w \in Workers :
             (Unprocessable(payload[o]) /\ o \in ReadBy(w))' =>
                (/\ commitG[w][o] + notified[o] = 1
                 /\ produced[o] = 0
                 /\ \A x \in Workers :
                      /\ subG[x][o] = 0 /\ inflight[x][o] = 0
                      /\ o \notin DOMAIN trackID[x]
                      /\ x # w => commitG[x][o] = 0)'
       /\ \A w \in Workers :
             (/\ Len(recv'[w]) > Len(recv[w])
              /\ Unprocessable(Head(input[w]).Value)) =>
                /\ commitG'[w] = BagAdd(commitG[w], Head(input[w]).Offset, 1)
                /\ subG' = subG /\ inflight' = inflight
                /\ trackID' = trackID /\ trackACK' = trackACK
                /\ wpc'[w] = wpc[w] /\ InLoop(w)'
      ]_vars
C18Witness ==
    /\ payload[FirstOffset].kind = "null"
    /\ \E w \in Workers : FirstOffset \in ReadBy(w) /\ InLoop(w)
    /\ \E o \in Offsets :
         /\ payload[o].kind = "badbatch" /\ notified[o] = 1
         /\ \E w \in Workers : o \in ReadBy(w) /\ wpc[w] = "drain"

\* a batch json.Unmarshal accepts and that holds no metric
EmptyBatch(value) == ParseOK(value) /\ value.n = 0

\* C19: an envelope whose valid batch yields no record is committed at once:
\* the step that reads it starts one commit notification, submits nothing
\* and leaves the tracking maps as they are; no record is ever submitted for
\* the envelope, no token is ever installed for it, and it gets exactly one
\* commit notification (pending in its goroutine or sent).
C19EmptyBatchCommitted ==
    [][/\ \A w \in Workers :
             (/\ Len(recv'[w]) > Len(recv[w])
              /\ EmptyBatch(Head(input[w]).Value)) =>
                /\ commitG'[w] = BagAdd(commitG[w], Head(input[w]).Offset, 1)
                /\ subG' = subG /\ inflight' = inflight
                /\ trackID' = trackID /\ trackACK' = trackACK
       /\ \A o \in Offsets : \A w \in Workers :
             (EmptyBatch(payload[o]) /\ o \in ReadBy(w))' =>
                (/\ commitG[w][o] + notified[o] = 1
                 /\ produced[o] = 0
                 /\ \A x \in Workers :
                      /\ subG[x][o] = 0 /\ inflight[x][o] = 0
                      /\ o \notin DOMAIN trackID[x]
                      /\ x # w => commitG[x][o] = 0)'
      ]_vars
C19Witness ==
    \E o \in Offsets : \E w \in Workers :
        /\ EmptyBatch(payload[o]) /\ o \in ReadBy(w)
        /\ notified[o] = 1 /\ commitG[w][o] = 0
        /\ DOMAIN trackID[w] # {}

\* a Value that is no JSON object with an integer host_id
Unpeekable(value) == value.kind \notin {"batch", "badbatch"}

\* the envelopes of offset o waiting in the Input channels or held by a
\* blocked Dispatch
Queued(o) ==
    {w \in Workers : \E i \in 1 .. Len(input[w]) : input[w][i].Offset = o}
        \cup (IF consPc = "dispatch" /\ consCur.Offset = o THEN {-1} ELSE {})

\* C20: for a delivered payload whose host id cannot be peeked Dispatch
\* returns an error; the envelope is in no handler's Input, is read by no
\* handler, and no commit notification for its offset is started or sent,
\* in the delivering step and in any later state.
C20UnpeekableDropped ==
    [][/\ \A o \in DeliveredOffsets' :
             Unpeekable(payload'[o]) =>
                (/\ DispatchRoute(payload[o]).res = "error"
                 /\ Queued(o) = {}
                 /\ notified[o] = 0
                 /\ \A w \in Workers :
                      o \notin ReadBy(w) /\ commitG[w][o] = 0)'
       /\ (delivered' > delivered
              /\ Unpeekable(payload'[FirstOffset + delivered]))
            => (input' = input /\ consPc' = consPc /\ consCur' = consCur)
      ]_vars
C20Witness ==
    /\ Unpeekable(payload[FirstOffset]) /\ delivered = scale.msgs
    /\ notified[FirstOffset + 1] = 1
    /\ mainPc = "exit" /\ panic = "none"

\* process installed a token for the envelope of offset o: every metric of
\* its batch, one at least, went to a submission goroutine
Installed(o) ==
    /\ payload[o].kind = "batch" /\ payload[o].n >= 1
    /\ produced[o] = payload[o].n
\* the success acks read so far for the records of offset o
Successes(o) == produced[o] - owed[o]

\* C21: a token installed with count n by handler w stays in both tracking
\* maps, with the count n less the successes read and with no commit
\* started, while fewer than n successes were read; once the n-th success
\* was read it is in neither map and exactly one commit was started for its
\* envelope (pending in its goroutine or sent).
C21RetiredOnLastSuccess ==
    \A w \in Workers : \A o \in ReadBy(w) :
        Installed(o) =>
            IF Successes(o) < produced[o]
            THEN /\ o \in DOMAIN trackID[w] /\ o \in DOMAIN trackACK[w]
                 /\ trackID[w][o] = produced[o] - Successes(o)
                 /\ commitG[w][o] = 0 /\ notified[o] = 0
            ELSE /\ o \notin DOMAIN trackID[w]
                 /\ o \notin DOMAIN trackACK[w]
                 /\ commitG[w][o] + notified[o] = 1
\* one token of count two has one success read, one of count one is retired
C21Witness ==
    \E w \in Workers : \E o, r \in ReadBy(w) :
        /\ produced[o] = 2 /\ Successes(o) = 1 /\ trackID[w][o] = 1
        /\ Installed(r) /\ produced[r] = 1 /\ Successes(r) = 1
        /\ commitG[w][r] = 1

\* C23: when handler w reads a batch with a metric to look up, an
\* "unconfigured" answer of the profile cache (like a profile) has every
\* metric submitted and leaves the handler in its loop; any other cache
\* error makes the handler report on Death, where it blocks, with no commit
\* started and no token installed for the envelope, and without a panic.
C23CacheErrorReported ==
    [][\A w \in Workers :
          (/\ Len(recv'[w]) > Len(recv[w])
           /\ ParseOK(Head(input[w]).Value)
           /\ Head(input[w]).Value.n >= 1) =>
             LET msg == Head(input[w])
             IN  IF scale.cache = "error"
                 THEN /\ wpc'[w] \in {"procDeathRun", "procDeathDrain"}
                      /\ panic' = "none"
                      /\ commitG'[w][msg.Offset] = 0
                      /\ msg.Offset \notin DOMAIN trackID'[w]
                 ELSE /\ produced'[msg.Offset] = msg.Value.n
                      /\ wpc'[w] = wpc[w]
                      /\ panic' = "none"
      ]_vars

\* handler w has reported on Death, or is about to, and has not gone on
Reporting(w) ==
    wpc[w] \in {"errDeath", "procDeathRun", "procDeathDrain"}
AtShutdown(w) ==
    wpc[w] \in {"errPark", "procParkRun", "procParkDrain"}

\* C22: a handler that reports on Death does nothing more until its
\* Shutdown channel is closed: it reads no envelope and no ack, and it
\* leaves "<-t.Shutdown" only when Shutdown is closed.  It reports once
\* only: the report is sent from the runloop, and after it the handler
\* returns.  Main leaves its loop with the first report it receives.
C22ReportThenPark ==
    [][/\ \A w \in Workers :
            /\ (Reporting(w) \/ AtShutdown(w)) =>
                  /\ Len(recv'[w]) = Len(recv[w])
                  /\ \A tok \in EnvKeys : inflight'[w][tok] >= inflight[w][tok]
                  /\ trackID'[w] = trackID[w]
                  /\ Reporting(w) => (Reporting(w) \/ AtShutdown(w))'
                  /\ AtShutdown(w) =>
                        \/ AtShutdown(w)'
                        \/ shutdownClosed[w] /\ wpc'[w] = "done"
            /\ (~Reporting(w) /\ Reporting(w)') => wpc[w] = "run"
            /\ wpc[w] = "done" => wpc'[w] = "done"
       /\ (mainPc = "run" /\ DeathSenders' # DeathSenders
              /\ Cardinality(DeathSenders') < Cardinality(DeathSenders))
            => (mainPc' # "run" /\ fault')
      ]_vars
\* a handler waits for Shutdown after its report while an envelope waits in
\* its Input, and main has left its loop on that report
C22Witness ==
    \E w \in Workers :
        /\ wpc[w] = "errPark" /\ ~shutdownClosed[w] /\ input[w] # <<>>
        /\ mainPc = "waitExit" /\ fault /\ consPc # "returned"

\* C24: a handler closes its producer only after it has read the nil of the
\* closed Input: whenever the producer of handler w is closed, its Input is
\* closed and holds no envelope.
C24CloseAfterSentinel ==
    \A w \in Workers :
        prodClosed[w] => (inputClosed[w] /\ input[w] = <<>>)

\* C25: when run of handler w has returned, it has read the nil of Input and
\* of both producer streams, its producer is closed, and every goroutine it
\* started has completed: its delay is back at zero and no commit goroutine
\* is pending.
C25ReturnsAfterDrain ==
    \A w \in Workers :
        wpc[w] = "done" =>
            /\ inputEmpty[w] /\ errorEmpty[w] /\ successEmpty[w]
            /\ prodClosed[w]
            /\ delay[w] = 0 /\ BagEmpty(commitG[w])

\* the delivered envelopes that Dispatch has put into the Input of handler w
SentTo(w) ==
    {o \in DeliveredOffsets :
        /\ DispatchRoute(payload[o]).res = "send"
        /\ DispatchRoute(payload[o]).key = w
        /\ ~(consPc = "dispatch" /\ consCur.Offset = o)}

\* C26: a handler in its drainloop takes the nil of the closed Input for
\* the end only when every envelope put into Input was read: once it has
\* read that nil, and when it has terminated after it, its Input is empty
\* and it has read every envelope Dispatch had sent to it.
C26DrainReadsAll ==
    \A w \in Workers :
        inputEmpty[w] => (input[w] = <<>> /\ SentTo(w) \subseteq ReadBy(w))
\* a handler is in its drainloop, its Input closed with an envelope in it
C26Witness ==
    \E w \in Workers :
        /\ wpc[w] = "drain" /\ inputClosed[w] /\ input[w] # <<>>
        /\ ~inputEmpty[w] /\ panic = "none"

\* C27: DelayedCommit signals done only when it has processed every
\* notification that is in the notification channel: the step by which it
\* leaves its loop on the closed shutdown channel finds the channel empty.
C27StopsAfterNotifications ==
    [][(dcPc = "run" /\ dcPc' = "done") => notify = <<>>]_vars

\* C28: after DelayedCommit has called CommitUpto, the offset it has
\* recorded for the partition is the offset just committed.
C28RecordsCommitted ==
    [][cgCommits' # cgCommits =>
          dcOffsets' = cgCommits'[Len(cgCommits')]]_vars

\* C30: the shared heartbeat map only moves forward: no step lowers the
\* timestamp stored for a handler or for the key -1, whatever the order in
\* which the Heartbeat calls of the handlers arrive.
C30BeatsMoveForward ==
    [][\A k \in DOMAIN beats : beats'[k] >= beats[k]]_vars
\* the timestamp of the later tick is stored for a handler and for -1 while
\* the Heartbeat call of that handler for the earlier tick is still to come
C30Witness ==
    \E w \in Workers :
        /\ beats[w] = 2 /\ beats[-1] = 2
        /\ \E i \in 1 .. Len(hbG[w]) : hbG[w][i] = 1

\* C29: a handler in its runloop that reads nil from the closed Input goes
\* on in the runloop: while it is there it has not taken Input for ended
\* and its producer is open, and from there it goes to the drainloop or to
\* a death report only.  Input is taken for ended only by a handler whose
\* Shutdown channel is closed and that has entered the drainloop.
C29NilInRunloopIgnored ==
    [][\A w \in Workers :
          /\ (wpc[w] = "run" =>
                ~inputEmpty[w] /\ ~producerClosed[w] /\ ~prodClosed[w])'
          /\ (inputEmpty[w] =>
                shutdownClosed[w] /\ wpc[w] \in {"drain", "wait", "done"})'
          /\ (wpc[w] = "run" /\ inputClosed[w] /\ input[w] = <<>>)
                => wpc'[w] \in {"run", "drain", "errDeath"}
      ]_vars
\* a handler is in its runloop with its Input closed and empty
C29Witness ==
    \E w \in Workers :
        /\ wpc[w] = "run" /\ inputClosed[w] /\ input[w] = <<>>
        /\ ~prodClosed[w] /\ panic = "none" /\ mainPc # "exit"

\* handler w has reported on Death and the report was received: it waits on
\* Shutdown, or has returned from there (without the sentinels of the
\* drainloop)
Reported(w) ==
    \/ wpc[w] = "errPark"
    \/ wpc[w] = "done" /\ ~inputEmpty[w]

\* C31: when main has exited and a handler had reported a death before, in
\* main's loop or in the drain phase after it, the exit status is non-zero.
C31DeathGivesNonZero ==
    (status # <<>> /\ \E w \in Workers : Reported(w)) => status # <<0>>

\* C32: Split sends on no closed collect channel, and what it returns holds
\* every metric of the batch once: as many records as the batch has float,
\* string and integer metrics over all its data blocks.
C32SplitReturnsAll ==
    /\ split.panic = "none"
    /\ split.pc = "returned" =>
          /\ Len(split.ret) = Cardinality(MetricsOf(split.data))
          /\ {split.ret[i] : i \in 1 .. Len(split.ret)}
                = MetricsOf(split.data)

\* the goroutines in a bag
RECURSIVE BagSize(_, _)
BagSize(bag, keys) ==
    IF keys = {} THEN 0
    ELSE LET k == CHOOSE x \in keys : TRUE
         IN  bag[k] + BagSize(bag, keys \ {k})

\* the auxiliary goroutines of handler w that were started and have not
\* finished: submission, commit and heartbeat goroutines
Auxiliary(w) ==
    BagSize(subG[w], EnvKeys) + BagSize(commitG[w], EnvKeys) + Len(hbG[w])

\* C33: the usage counter of a handler's wait policy is the number of its
\* auxiliary goroutines started and not finished; it never goes below zero
\* (the uint32 never wraps), and Wait has returned only with none of them
\* left.
C33DelayCountsGoroutines ==
    \A w \in Workers :
        /\ delay[w] = Auxiliary(w)
        /\ delay[w] >= 0
        /\ wpc[w] = "done" /\ inputEmpty[w] => Auxiliary(w) = 0

\* C34: a success ack read by handler w for the token of an envelope that
\* process ran through to its end finds the token in the tracking map: the
\* handler reads Successes() in the loop that also calls process, so the
\* entry is installed before the first ack of its records is handled, and
\* no such ack is dropped as an unknown tracking id.
C34AckFindsToken ==
    [][\A w \in Workers : \A tok \in Offsets :
          (/\ Installed(tok)
           /\ inflight'[w][tok] < inflight[w][tok]
           /\ owed'[tok] < owed[tok]) =>
              /\ tok \in DOMAIN trackID[w]
              /\ trackID[w][tok] = owed[tok]
      ]_vars
\* the first ack of a token of two records was handled while the second is
\* ready in Successes()
C34Witness ==
    \E w \in Workers : \E o \in ReadBy(w) :
        /\ Installed(o) /\ produced[o] = 2 /\ Successes(o) = 1
        /\ inflight[w][o] = 1 /\ o \in DOMAIN trackID[w]

\* C35: the count that process installs for a token is the number of
\* submission goroutines it started for the envelope, one at least: a metric
\* skipped for a marshal failure is not counted, and the count is the number
\* of the envelope's submitted records still without a success.
C35CountIsSubmitted ==
    [][\A w \in Workers : \A tok \in Offsets :
          (tok \in DOMAIN trackID'[w] /\ tok \notin DOMAIN trackID[w]) =>
              /\ trackID'[w][tok] = subG'[w][tok] - subG[w][tok]
              /\ trackID'[w][tok] = produced'[tok]
              /\ trackID'[w][tok] = owed'[tok]
              /\ trackID'[w][tok] >= 1
      ]_vars
\* a batch of two metrics, one of them skipped, was installed with count 1
\* and has been retired by its one success
C35Witness ==
    \E w \in Workers : \E o \in ReadBy(w) :
        /\ payload[o].kind = "batch" /\ payload[o].n = 2
        /\ produced[o] = 1 /\ owed[o] = 0
        /\ o \notin DOMAIN trackID[w]
        /\ commitG[w][o] + notified[o] = 1

\* C36: once the consumer has stopped, whichever way, its exit channel is
\* closed; main's "<-consumerExit" cannot wait for a consumer that is gone.
C36ExitClosedWhenStopped ==
    consPc \in {"returned", "exited"} => consExit

\* C37: CommitUpto is not called once the consumer group client is closed:
\* the client is closed only when DelayedCommit has closed done, and from
\* then on the log of CommitUpto calls stays as it is.
C37NoCommitAfterClose ==
    [][/\ cgClosed' => dcPc' = "done"
       /\ cgClosed => cgCommits' = cgCommits
      ]_vars
\* the client was closed after a CommitUpto, with a notification left in the
\* channel
C37Witness == cgClosed /\ cgCommits # <<>> /\ notify # <<>>

\* the heartbeat senders of main that are blocked on a full Input
BlockedSenders == {s \in hbSend : Len(input[s[1]]) >= scale.queue}

\* C38: a heartbeat tick leaves main in the select of its main loop and
\* sends nothing itself; while main is there it can take the shutdown
\* signal, and a death report that is waiting, whatever the Inputs hold and
\* however many heartbeat senders are blocked on them.
C38TickLeavesMainFree ==
    /\ [][ticks' > ticks => (mainPc' = "run" /\ input' = input)]_vars
    /\ [](Alive /\ mainPc = "run" =>
            /\ ENABLED MainSignal
            /\ DeathSenders # {} => ENABLED MainDeath)
\* main has left its loop on a signal after a tick that found every Input
\* full: the senders of that tick are still blocked
C38Witness ==
    /\ mainPc = "waitExit" /\ ticks >= 2
    /\ \A w \in Workers : Len(input[w]) = scale.queue
    /\ \A w \in Workers : \E s \in BlockedSenders : s[1] = w

\* C39: the two tracking maps of a handler have the same keys; every count
\* stored is at least 1 and every list of envelopes stored holds one
\* envelope at least.
C39MapsAgree ==
    \A w \in Workers :
        /\ DOMAIN trackID[w] = DOMAIN trackACK[w]
        /\ \A tok \in DOMAIN trackID[w] : trackID[w][tok] >= 1
        /\ \A tok \in DOMAIN trackACK[w] : trackACK[w][tok] # <<>>
\* a handler tracks two tokens, one of them with one of its two records
\* acked, while the other handler tracks none
C39Witness ==
    \E w, x \in Workers :
        /\ w # x
        /\ Cardinality(DOMAIN trackID[w]) = 2
        /\ \E tok \in DOMAIN trackID[w] :
             trackID[w][tok] = 1 /\ produced[tok] = 2
        /\ DOMAIN trackID[x] = {}

====
